---- MODULE Spec2Model ----
(***************************************************************************)
(* Model of the bounded-concurrency fetch layer and the job manager of     *)
(* src/src/async_scraper.py (AsyncBaseScraper, AsyncPropertyScraper,       *)
(* AsyncScrapingManager).  Coroutines are cut at their suspension points   *)
(* (semaphore acquire, asyncio.sleep, the HTTP round trip, gather, session *)
(* close); the code between two suspension points is one atomic action, as *)
(* it is on a single-threaded event loop.                                  *)
(*                                                                         *)
(* Environment assumptions.  An attempt's outcome is what the whole        *)
(* "async with session.get(...)" block ends as: "200" is a 200 response    *)
(* whose body was read, "timeout"/"error" are asyncio.TimeoutError or any  *)
(* other Exception raised anywhere in the block.  request_delay is a       *)
(* positive number of time units.  fetch_page_unexpected is an exception   *)
(* that leaves the retry loop because it is raised outside the try body.   *)
(* asyncio.Semaphore is modelled by its contract: a counter and a FIFO of  *)
(* suspended acquirers, a released slot going to the first of them.        *)
(* A created task may take its first step at any later time, which covers  *)
(* both gathered and separately started calls.                             *)
(*                                                                         *)
(* Specifications: SpecFetch is one scraper used directly (fetch_page, any *)
(* retries, or one fetch_multiple_pages batch); SpecScrape is one          *)
(* scrape_property_urls call on it and SpecAccount a sequence of such      *)
(* calls, or one job; Spec is the job manager running run_multiple_jobs    *)
(* over the same fetch actions, SpecStatus the same with a caller polling  *)
(* get_job_status, SpecLive one directly called job under fair scheduling; *)
(* SpecStats, SpecFilter and SpecSearch apply get_scraping_stats,          *)
(* filter_properties and scrape_search_results to inputs drawn from        *)
(* bounded sets.  SpecHistory is JobScheduler.run_scraping_job of          *)
(* src/scheduler.py, SpecRate is RateLimiter.wait_if_needed of             *)
(* src/src/cache_manager.py.  success_rate is kept as an exact fraction,   *)
(* not as a float.                                                         *)
(***************************************************************************)
EXTENDS Integers, Sequences, FiniteSets, TLC

\* ------------------------------------------------------------------ bounds
MaxUrls == 2
MaxRetries == 1
MaxConc == 2
MaxDelay == 1
MaxJobs == 2
MaxJobUrls == 2
MaxScraped == 7
MaxFailed == 3
MaxValue == 2
MaxRecords == 2
MaxProperties == 52
MaxRuns == 3
MaxLimit == 2
MaxCalls == 4
MaxAttempted == 3

\* ------------------------------------------------------- program constants
DefaultRetries == 3
PenaltyFactor == 5
NumUserAgents == 5
DefaultRequestDelay == 2
UrlRangeStop == 51
HistoryCap == 100
Window == 60
Buffer == 1

Scrapers == 1..MaxJobs
OpIds == 1..MaxUrls
UrlNames == 1..MaxUrls
JobIds == {1, 2}

VARIABLES
    max_concurrent,     \* [Scrapers -> Int]   AsyncBaseScraper.max_concurrent
    request_delay,      \* [Scrapers -> Nat]   AsyncBaseScraper.request_delay
    session,            \* [Scrapers -> BOOLEAN]  self.session is not None
    semaphore,          \* [Scrapers -> Nat]   free slots of self.semaphore
    waiters,            \* [Scrapers -> Seq(OpIds)]  FIFO of suspended acquirers
    current_user_agent, \* [Scrapers -> 0..4]
    op,                 \* [Scrapers -> [OpIds -> fetch_page activation]]
    urls,               \* [Scrapers -> Seq(UrlNames)] argument of fetch_multiple_pages
    batch,              \* [Scrapers -> "none" | "gathering" | "returned"]
    gather_results,     \* [Scrapers -> Seq(result)]  asyncio.gather's result list
    arrival,            \* [Scrapers -> Seq(OpIds)]  order the gathered tasks finished in
    pages,              \* [Scrapers -> Seq(result)]  value fetch_multiple_pages returned
    scraped_properties, \* [Scrapers -> Seq(url)]  AsyncPropertyScraper.scraped_properties
    failed_urls,        \* [Scrapers -> Seq(url)]  AsyncPropertyScraper.failed_urls
    jobs,               \* Seq(job)  argument of run_multiple_jobs
    run,                \* [Scrapers -> run_scraping_job activation]
    active_scrapers,    \* [JobIds -> 0..MaxJobs]  0: no such key, else the scraper
    completed_jobs,     \* Seq(job result)
    manager,            \* "idle" | "gathering" | "returned"  (run_multiple_jobs)
    job_gather,         \* Seq(job result)  asyncio.gather's result list
    job_results,        \* Seq(job result)  value run_multiple_jobs returned
    status_reply,       \* value of the last get_job_status call, until the next step
    parse,              \* [Scrapers -> Seq(ParseOutcomes)]  what parse and validate made of each page
    properties,         \* [Scrapers -> Seq(url)]  value scrape_property_urls returned
    stats,              \* value get_scraping_stats returned
    candidates,         \* Seq(Property)  argument of filter_properties
    criteria,           \* SearchCriteria  argument of filter_properties
    filtered,           \* value filter_properties returned
    attempted,          \* [Scrapers -> [UrlNames -> Nat]]  times each URL was attempted
    search,             \* a scrape_search_results call: argument, URLs derived, records returned
    job_history,        \* Seq(job record)  JobScheduler.job_history
    executions,         \* number of JobScheduler.run_scraping_job calls made so far
    scraper_available,  \* scheduler.py's SCRAPER_AVAILABLE, fixed at import
    max_requests,       \* RateLimiter.max_requests
    requests,           \* Seq(time)  RateLimiter.requests
    clock,              \* time.time(), in seconds, when the last call returned
    recorded,           \* Seq: when each wait_if_needed call was made, the time it appended
    wait_time           \* seconds the last wait_if_needed call slept, -1 before any call

fetchVars == <<max_concurrent, request_delay, session, semaphore, waiters,
               current_user_agent, op, urls, batch, gather_results, arrival, pages>>

jobVars == <<scraped_properties, failed_urls, jobs, run, active_scrapers,
             completed_jobs, manager, job_gather, job_results>>

\* JobScheduler (src/scheduler.py) and RateLimiter (src/src/cache_manager.py)
schedulerVars == <<job_history, executions, scraper_available>>

limiterVars == <<max_requests, requests, clock, recorded, wait_time>>

\* arguments and return values of the calls made on a scraper or on the manager
callVars == <<parse, properties, stats, candidates, criteria, filtered, attempted,
              search, schedulerVars, limiterVars>>

\* those of them that are not a scraper's view of its last batch
otherCalls == <<stats, candidates, criteria, filtered, attempted, search,
                schedulerVars, limiterVars>>

vars == <<fetchVars, jobVars, status_reply, callVars>>

\* A step of a fetch or of a job is no call of scrape_property_urls,
\* get_scraping_stats or filter_properties, and the dict an earlier
\* get_job_status returned is a local of its caller that is gone by then.
NoReply == [job_id |-> 0, status |-> "none"]

NoCall == status_reply' = NoReply /\ UNCHANGED callVars

\* --------------------------------------------------------- result values
\* What a fetch_page call can end as: not finished, None, a str, or a raised
\* exception.  A str carries the URL it was served for; text "" is an empty body.
\* An activation also records, until its first request, whether it was
\* suspended in acquire (waited) and, while its GET is out, the index of the
\* user agent in the header (ua).
Pending == [kind |-> "pending", url |-> 0, text |-> ""]
None == [kind |-> "None", url |-> 0, text |-> ""]
Raised == [kind |-> "exception", url |-> 0, text |-> ""]
Str(u, t) == [kind |-> "str", url |-> u, text |-> t]
Bodies == {"html", ""}

Outcomes == {"200", "429", "500", "timeout", "error"}

\* only a 200 response has its body read
BodiesOf(outcome) == IF outcome = "200" THEN Bodies ELSE {""}

IdleOp == [pc |-> "idle", url |-> 0, retries |-> 0, attempt |-> 0, gets |-> 0,
           prev |-> "none", slept |-> 0, first200 |-> -1, only429 |-> TRUE,
           fault |-> FALSE, result |-> Pending, waited |-> FALSE, ua |-> -1]

\* variant: the slot is held around the GET only
HoldingRequestOnly == {"get"}

\* pcs at which a fetch_page call is inside "async with self.semaphore"
Holding == {"sleep", "get", "penalty"}

InFlight(s) == {i \in OpIds : op[s][i].pc \in Holding}

\* ------------------------------------------------------------ semaphore
\* variant: acquire never suspends
CanAcquireAlways(s) == TRUE

\* asyncio.Semaphore.acquire returns at once only when a slot is free and
\* nobody is queued before the caller.
CanAcquire(s) == semaphore[s] > 0 /\ waiters[s] = <<>>

\* variant: a release wakes nobody
WakesNobody(q) == FALSE

\* asyncio.Semaphore.release wakes the first suspended acquirer if there is one
Wakes(q) == q # <<>>

\* variant: every scraper gets the default of line 135
SemaphoreDefault(value) == 5

\* line 22: asyncio.Semaphore(max_concurrent) starts with that many free slots
Semaphore(value) == value

\* variant: the slot is acquired and never given back
ExitReleasesNever(res) == FALSE

\* variant: the slot is released on a normal return only
ExitReleasesOnReturn(res) == res.kind # "exception"

\* "async with self.semaphore" releases on every way out of the block.
ExitReleases(res) == TRUE

\* ------------------------------------------------------------ retry loop
\* sleep before an attempt (lines 78-81)
Backoff(d, attempt) == IF attempt > 0 THEN d * (attempt + 1) ELSE d

\* variant: a 429 is not followed by an extra sleep
PenaltySleepNone(d) == 0

\* sleep after a 429 (line 92)
PenaltySleep(d) == d * PenaltyFactor

\* variant: one iteration too many
RetryBudgetLeftOffByOne(o) == o.attempt < o.retries

\* "for attempt in range(retries)": is there another iteration after this one
RetryBudgetLeft(o) == o.attempt + 1 < o.retries

\* variant: only the timeout clause exists
HandledTimeoutOnly(outcome) == outcome = "timeout"

\* the except clauses of the loop body (lines 96-99) catch every Exception
Handled(outcome) == outcome \in {"timeout", "error"}

\* variant: a 200 response is logged and the loop goes on
ReturnsOn200Never(outcome) == FALSE

\* line 86-89: a 200 response returns from inside the loop
ReturnsOn200(outcome) == outcome = "200"

\* variant: the cursor runs past the end of the pool
NextUserAgentNoWrap(c) == c + 1

\* get_user_agent (lines 66-70): the cursor after handing out one agent
NextUserAgent(c) == (c + 1) % NumUserAgents

\* variant: results are collected in completion order
GatherStoreArrival(results, i, v) ==
    LET k == CHOOSE k \in 1..Len(results) :
                 /\ results[k].kind = "pending"
                 /\ \A j \in 1..(k - 1) : results[j].kind # "pending"
    IN [results EXCEPT ![k] = v]

\* asyncio.gather stores a child's result at the child's position
GatherStore(results, i, v) == [results EXCEPT ![i] = v]

\* lines 119-127: an exception entry and a None entry both become None
PageOf(result) == IF result.kind = "exception" THEN None ELSE result

ProcessResults(results) == [i \in 1..Len(results) |-> PageOf(results[i])]

\* variant: gather without return_exceptions stops at the first exception
GatherDoneFirstException(results) ==
    \/ \A i \in 1..Len(results) : results[i].kind # "pending"
    \/ \E i \in 1..Len(results) : results[i].kind = "exception"

\* gather(..., return_exceptions=True) completes when every child has
GatherDone(results) == \A i \in 1..Len(results) : results[i] # Pending

\* ------------------------------------------------- leaving fetch_page
\* The call of activation i ends with value res (a return value or Raised):
\* the semaphore's __aexit__ releases the slot, which asyncio hands to the
\* first queued acquirer if there is one, and gather records the result.
Finish(s, i, o, res) ==
    LET done == [o EXCEPT !.pc = "done", !.result = res, !.waited = FALSE, !.ua = -1] IN
    /\ IF ExitReleases(res)
         THEN IF Wakes(waiters[s])
                THEN /\ op' = [op EXCEPT ![s] = [@ EXCEPT ![i] = done,
                                    ![Head(waiters[s])] = [@ EXCEPT !.pc = "sleep"]]]
                     /\ waiters' = [waiters EXCEPT ![s] = Tail(@)]
                     /\ UNCHANGED semaphore
                ELSE /\ op' = [op EXCEPT ![s][i] = done]
                     /\ semaphore' = [semaphore EXCEPT ![s] = @ + 1]
                     /\ UNCHANGED waiters
         ELSE /\ op' = [op EXCEPT ![s][i] = done]
              /\ UNCHANGED <<semaphore, waiters>>
    /\ gather_results' = IF batch[s] = "gathering"
                            THEN [gather_results EXCEPT ![s] = GatherStore(@, i, res)]
                            ELSE gather_results
    /\ arrival' = IF batch[s] = "gathering"
                     THEN [arrival EXCEPT ![s] = Append(@, i)]
                     ELSE arrival

\* End of one loop iteration that did not return: next iteration, or line
\* 101-102 when range(retries) is used up.
Continue(s, i, o) ==
    IF RetryBudgetLeft(o)
      THEN /\ op' = [op EXCEPT ![s][i] = [o EXCEPT !.pc = "sleep", !.attempt = @ + 1]]
           /\ UNCHANGED <<semaphore, waiters, gather_results, arrival>>
      ELSE Finish(s, i, o, None)

\* An attempt ended in an exception: caught by the loop's except clauses
\* (next iteration) or, were it not, leaving fetch_page.
AttemptRaised(s, i, o, outcome) ==
    IF Handled(outcome)
      THEN Continue(s, i, [o EXCEPT !.prev = "fail", !.only429 = FALSE, !.slept = 0])
      ELSE Finish(s, i, o, Raised)

\* ----------------------------------------------------------- fetch_page
\* A caller creates the coroutine fetch_page(url, retries) as a task.
fetch_page_call(s, i, u, r) ==
    /\ batch[s] = "none"
    /\ op[s][i].pc = "idle"
    /\ op' = [op EXCEPT ![s][i] = [IdleOp EXCEPT !.pc = "created", !.url = u, !.retries = r]]
    /\ UNCHANGED <<max_concurrent, request_delay, session, semaphore, waiters,
                   current_user_agent, urls, batch, gather_results, arrival, pages>>
    /\ UNCHANGED jobVars
    /\ NoCall

\* line 74: enter "async with self.semaphore", suspending when no slot is free
fetch_page_acquire(s, i) ==
    /\ op[s][i].pc = "created"
    /\ IF CanAcquire(s)
         THEN /\ semaphore' = [semaphore EXCEPT ![s] = @ - 1]
              /\ op' = [op EXCEPT ![s][i].pc = "sleep"]
              /\ UNCHANGED waiters
         ELSE /\ waiters' = [waiters EXCEPT ![s] = Append(@, i)]
              /\ op' = [op EXCEPT ![s][i] = [@ EXCEPT !.pc = "waiting", !.waited = TRUE]]
              /\ UNCHANGED semaphore
    /\ UNCHANGED <<max_concurrent, request_delay, session, current_user_agent,
                   urls, batch, gather_results, arrival, pages>>
    /\ UNCHANGED jobVars
    /\ NoCall

\* lines 78-85: the delay sleep is over; take a user agent and issue the GET
\* (self.session is None raises AttributeError inside the try body)
fetch_page_request(s, i) ==
    LET o == op[s][i]
        slept == [o EXCEPT !.slept = @ + Backoff(request_delay[s], o.attempt),
                           !.waited = FALSE]
    IN
    /\ o.pc = "sleep"
    /\ current_user_agent' = [current_user_agent EXCEPT ![s] = NextUserAgent(@)]
    /\ IF session[s]
         THEN /\ op' = [op EXCEPT ![s][i] = [slept EXCEPT !.pc = "get", !.gets = @ + 1,
                                                          !.ua = current_user_agent[s]]]
              /\ UNCHANGED <<semaphore, waiters, gather_results, arrival>>
         ELSE AttemptRaised(s, i, slept, "error")
    /\ UNCHANGED <<max_concurrent, request_delay, session, urls, batch, pages>>
    /\ UNCHANGED jobVars
    /\ NoCall

\* lines 85-99: the GET ends with a status, a timeout or another exception
fetch_page_response(s, i, outcome, body) ==
    LET o == op[s][i]
        seen == [o EXCEPT !.slept = 0, !.ua = -1,
                          !.only429 = @ /\ outcome = "429",
                          !.prev = IF outcome \in {"200", "429"} THEN outcome ELSE "fail",
                          !.first200 = IF outcome = "200" /\ @ = -1 THEN o.attempt ELSE @]
    IN
    /\ o.pc = "get"
    /\ IF outcome = "200" /\ ReturnsOn200(outcome)
         THEN Finish(s, i, seen, Str(o.url, body))
         ELSE IF outcome = "429"
           THEN /\ op' = [op EXCEPT ![s][i] = [seen EXCEPT !.pc = "penalty"]]
                /\ UNCHANGED <<semaphore, waiters, gather_results, arrival>>
           ELSE IF outcome \in {"timeout", "error"}
             THEN AttemptRaised(s, i, [o EXCEPT !.ua = -1], outcome)
             ELSE Continue(s, i, seen)
    /\ UNCHANGED <<max_concurrent, request_delay, session, current_user_agent,
                   urls, batch, pages>>
    /\ UNCHANGED jobVars
    /\ NoCall

\* line 92: the rate-limit sleep is over
fetch_page_penalty(s, i) ==
    LET o == op[s][i] IN
    /\ o.pc = "penalty"
    /\ Continue(s, i, [o EXCEPT !.slept = @ + PenaltySleep(request_delay[s])])
    /\ UNCHANGED <<max_concurrent, request_delay, session, current_user_agent,
                   urls, batch, pages>>
    /\ UNCHANGED jobVars
    /\ NoCall

\* An exception raised inside the semaphore block but outside the try body
\* (the for statement, an except clause's own body, line 101) leaves the call.
fetch_page_unexpected(s, i) ==
    LET o == op[s][i] IN
    /\ o.pc \in Holding
    /\ Finish(s, i, [IdleOp EXCEPT !.url = o.url, !.retries = o.retries, !.fault = TRUE],
              Raised)
    /\ UNCHANGED <<max_concurrent, request_delay, session, current_user_agent,
                   urls, batch, pages>>
    /\ UNCHANGED jobVars
    /\ NoCall

\* -------------------------------------------------- fetch_multiple_pages
\* lines 109-113: one fetch_page(url) task per URL, default retries, gathered
StartBatch(s, us) ==
    /\ urls' = [urls EXCEPT ![s] = us]
    /\ op' = [op EXCEPT ![s] = [i \in OpIds |->
                 IF i <= Len(us)
                   THEN [IdleOp EXCEPT !.pc = "created", !.url = us[i],
                                       !.retries = DefaultRetries]
                   ELSE IdleOp]]
    /\ gather_results' = [gather_results EXCEPT ![s] = [i \in 1..Len(us) |-> Pending]]
    /\ arrival' = [arrival EXCEPT ![s] = <<>>]
    /\ batch' = [batch EXCEPT ![s] = "gathering"]

\* a caller awaits fetch_multiple_pages(urls) on a scraper it holds
fetch_multiple_pages(s, us) ==
    /\ batch[s] = "none"
    /\ \A i \in OpIds : op[s][i].pc = "idle"
    /\ StartBatch(s, us)
    /\ UNCHANGED <<max_concurrent, request_delay, session, semaphore, waiters,
                   current_user_agent, pages>>
    /\ UNCHANGED jobVars
    /\ NoCall

\* lines 113-130: gather is complete; build and return the pages list
fetch_multiple_pages_return(s) ==
    /\ run[s].pc = "none"
    /\ batch[s] = "gathering"
    /\ GatherDone(gather_results[s])
    /\ pages' = [pages EXCEPT ![s] = ProcessResults(gather_results[s])]
    /\ batch' = [batch EXCEPT ![s] = "returned"]
    /\ UNCHANGED <<max_concurrent, request_delay, session, semaphore, waiters,
                   current_user_agent, op, urls, gather_results, arrival>>
    /\ UNCHANGED jobVars
    /\ NoCall

\* ------------------------------------------------------------ job results
\* The dicts of lines 279-288 (completed) and 301-307 (failed); job_id 0 is a
\* dict without that key (lines 339-342).  A property is named by its URL.
PendingJob == [job_id |-> 0, status |-> "pending", properties |-> <<>>,
               property_count |-> 0, total_properties_scraped |-> 0,
               failed_urls |-> 0, error |-> ""]

\* variant: a job without records is recorded as failed
job_resultEmptyFails(jid, props, scraped, failed) ==
    [PendingJob EXCEPT !.job_id = jid,
                       !.status = IF props = <<>> THEN "failed" ELSE "completed",
                       !.properties = props,
                       !.property_count = Len(props),
                       !.total_properties_scraped = Len(scraped),
                       !.failed_urls = Len(failed)]

job_result(jid, props, scraped, failed) ==
    [PendingJob EXCEPT !.job_id = jid, !.status = "completed", !.properties = props,
                       !.property_count = Len(props),
                       !.total_properties_scraped = Len(scraped),
                       !.failed_urls = Len(failed)]

error_result(jid, err) ==
    [PendingJob EXCEPT !.job_id = jid, !.status = "failed", !.error = err]

IdleRun == [pc |-> "none", job_id |-> 0, max_properties |-> 0, max_concurrent |-> 0,
            err |-> "", ret |-> PendingJob]

Min(a, b) == IF a < b THEN a ELSE b

Max(a, b) == IF a > b THEN a ELSE b

\* variant: the URL set is not capped
PropertyUrlsUncapped(mp) == [i \in 1..mp |-> i]

\* line 204: the URLs numbered range(1, min(max_properties + 1, 51))
PropertyUrls(mp) == [i \in 1..(Min(mp + 1, UrlRangeStop) - 1) |-> i]

\* line 150: "if page_content" holds for a non-empty str only
Truthy(page) == page.kind = "str" /\ page.text # ""

\* What parse_property_page and validate_property make of one page: a record
\* that validates, a record that does not, no record, or an exception.
ParseOutcomes == {"valid", "invalid", "null", "raise"}

Indices(n) == [i \in 1..n |-> i]

\* variant: a record is kept whether or not it validates
ParsedKeepsInvalid(us, pgs, po) ==
    LET Keep(i) == Truthy(pgs[i]) /\ po[i] \in {"valid", "invalid"}
        kept == SelectSeq(Indices(Len(us)), Keep)
    IN [k \in 1..Len(kept) |-> us[kept[k]]]

\* variant: the try statement is around the loop, so a raise ends the loop
ParsedStopsAtRaise(us, pgs, po) ==
    LET Keep(i) == /\ Truthy(pgs[i]) /\ po[i] = "valid"
                   /\ \A j \in 1..(i - 1) : po[j] # "raise"
        kept == SelectSeq(Indices(Len(us)), Keep)
    IN [k \in 1..Len(kept) |-> us[kept[k]]]

\* lines 148-165: the records kept, in URL order
Parsed(us, pgs, po) ==
    LET Keep(i) == Truthy(pgs[i]) /\ po[i] = "valid"
        kept == SelectSeq(Indices(Len(us)), Keep)
    IN [k \in 1..Len(kept) |-> us[kept[k]]]

\* variant: every URL is appended to failed_urls, whatever became of it
FailedEveryUrl(us, pgs, po) == us

\* lines 161-165: the URLs appended to failed_urls, in URL order
Failed(us, pgs, po) ==
    LET Bad(i) == ~Truthy(pgs[i]) \/ po[i] = "raise"
        bad == SelectSeq(Indices(Len(us)), Bad)
    IN [k \in 1..Len(bad) |-> us[bad[k]]]

\* lines 216-241, with the criteria's verdict on each record given by fk
Filtered(props, fk) ==
    LET Keep(u) == fk[u] IN SelectSeq(props, Keep)

\* the parse/validate outcomes to try: a page that is not parsed has none
ParseChoices(pgs) ==
    {po \in [1..Len(pgs) -> ParseOutcomes] :
        \A i \in 1..Len(pgs) : ~Truthy(pgs[i]) => po[i] = "null"}

\* the criteria's verdicts to try, one for each record
FilterChoices(props) ==
    {fk \in [UrlNames -> BOOLEAN] :
        \A u \in UrlNames : (\A k \in 1..Len(props) : props[k] # u) => fk[u]}

\* variant: job results are collected in completion order
JobGatherStoreArrival(results, i, v) ==
    LET k == CHOOSE k \in 1..Len(results) :
                 /\ results[k].status = "pending"
                 /\ \A j \in 1..(k - 1) : results[j].status # "pending"
    IN [results EXCEPT ![k] = v]

\* asyncio.gather (line 332) stores a job's result at the job's position
JobGatherStore(results, i, v) == [results EXCEPT ![i] = v]

\* variant: a completed job stays registered
DelActiveMissing(active, jid) == active

\* lines 292-293: the job_id is removed from active_scrapers when present
DelActive(active, jid) == [active EXCEPT ![jid] = 0]

\* variant: the except clause leaves active_scrapers alone
DelActiveOnErrorMissing(active, jid) == active

\* lines 311-312: the same removal in the except clause
DelActiveOnError(active, jid) == [active EXCEPT ![jid] = 0]

\* lines 336-344: an exception entry becomes a failed dict without job_id
JobEntry(result) ==
    IF result.status = "raised"
      THEN [PendingJob EXCEPT !.status = "failed", !.error = result.error]
      ELSE result

\* ------------------------------------------------------ run_scraping_job
\* run_scraping_job returns res to its caller (gather, when gathered)
Return(r, res) ==
    /\ run' = [run EXCEPT ![r] = [@ EXCEPT !.pc = "done", !.ret = res]]
    /\ job_gather' = IF manager = "gathering"
                       THEN JobGatherStore(job_gather, r, res)
                       ELSE job_gather

\* lines 298-314: the except clause of run_scraping_job
Handler(r, err) ==
    LET res == error_result(run[r].job_id, err) IN
    /\ completed_jobs' = Append(completed_jobs, res)
    /\ active_scrapers' = DelActiveOnError(active_scrapers, run[r].job_id)
    /\ Return(r, res)

\* lines 264-272 and 200-209, 140-145, 104-113: build the scraper, start its
\* session, register it, derive the URLs and hand one fetch task per URL to
\* gather.  Semaphore(max_concurrent) raises ValueError for a negative value;
\* startFault is start_session raising.
run_scraping_job_start(r, startFault) ==
    LET j == run[r] IN
    /\ j.pc = "created"
    /\ IF j.max_concurrent < 0 \/ startFault
         THEN /\ Handler(r, IF j.max_concurrent < 0 THEN "ValueError" ELSE "start_session")
              /\ UNCHANGED <<fetchVars, scraped_properties, failed_urls>>
         ELSE /\ max_concurrent' = [max_concurrent EXCEPT ![r] = j.max_concurrent]
              /\ semaphore' = [semaphore EXCEPT ![r] = Semaphore(j.max_concurrent)]
              /\ request_delay' = [request_delay EXCEPT ![r] = DefaultRequestDelay]
              /\ session' = [session EXCEPT ![r] = TRUE]
              /\ waiters' = [waiters EXCEPT ![r] = <<>>]
              /\ current_user_agent' = [current_user_agent EXCEPT ![r] = 0]
              /\ scraped_properties' = [scraped_properties EXCEPT ![r] = <<>>]
              /\ failed_urls' = [failed_urls EXCEPT ![r] = <<>>]
              /\ active_scrapers' = [active_scrapers EXCEPT ![j.job_id] = r]
              /\ StartBatch(r, PropertyUrls(j.max_properties))
              /\ run' = [run EXCEPT ![r].pc = "gathering"]
              /\ UNCHANGED <<pages, completed_jobs, job_gather>>
    /\ UNCHANGED <<jobs, manager, job_results>>
    /\ NoCall

\* lines 113-130, 147-169, 211-214, 274-296: gather is complete; pages are
\* parsed, validated and filtered, the result dict is built, appended to
\* completed_jobs and the job_id removed from active_scrapers; the return
\* then awaits close_session in __aexit__.  buildFault is an exception raised
\* by filter_properties or while the dict is built (before the append).
\* The finished tasks, gather's list and the pages list are locals that are
\* dropped in this step.
run_scraping_job_scraped(r) ==
    /\ run[r].pc = "gathering"
    /\ batch[r] = "gathering"
    /\ GatherDone(gather_results[r])
    /\ LET pgs == ProcessResults(gather_results[r]) IN
       \E po \in ParseChoices(pgs), buildFault \in BOOLEAN :
       \E fk \in FilterChoices(Parsed(urls[r], pgs, po)) :
         LET j == run[r]
             props == Parsed(urls[r], pgs, po)
             scraped == scraped_properties[r] \o props
             failed == failed_urls[r] \o Failed(urls[r], pgs, po)
             res == job_result(j.job_id, Filtered(props, fk), scraped, failed)
         IN
         /\ batch' = [batch EXCEPT ![r] = "returned"]
         /\ op' = [op EXCEPT ![r] = [i \in OpIds |-> IdleOp]]
         /\ gather_results' = [gather_results EXCEPT ![r] = <<>>]
         /\ arrival' = [arrival EXCEPT ![r] = <<>>]
         /\ scraped_properties' = [scraped_properties EXCEPT ![r] = scraped]
         /\ failed_urls' = [failed_urls EXCEPT ![r] = failed]
         /\ parse' = [parse EXCEPT ![r] = po]
         /\ properties' = [properties EXCEPT ![r] = props]
         /\ IF buildFault
              THEN /\ run' = [run EXCEPT ![r] = [@ EXCEPT !.pc = "closing_exc",
                                                          !.err = "build"]]
                   /\ UNCHANGED <<completed_jobs, active_scrapers>>
              ELSE /\ completed_jobs' = Append(completed_jobs, res)
                   /\ active_scrapers' = DelActive(active_scrapers, j.job_id)
                   /\ run' = [run EXCEPT ![r] = [@ EXCEPT !.pc = "closing_ok",
                                                          !.ret = res]]
    /\ UNCHANGED <<max_concurrent, request_delay, session, semaphore, waiters,
                   current_user_agent, urls, pages>>
    /\ UNCHANGED <<jobs, manager, job_gather, job_results>>
    /\ status_reply' = NoReply
    /\ UNCHANGED otherCalls

\* The scraper is a local of run_scraping_job: nothing refers to it once the
\* call has returned and its job_id is no longer a key of active_scrapers.
DropScraper(r) ==
    /\ max_concurrent' = [max_concurrent EXCEPT ![r] = 0]
    /\ semaphore' = [semaphore EXCEPT ![r] = 0]
    /\ session' = [session EXCEPT ![r] = FALSE]
    /\ current_user_agent' = [current_user_agent EXCEPT ![r] = 0]
    /\ urls' = [urls EXCEPT ![r] = <<>>]
    /\ batch' = [batch EXCEPT ![r] = "none"]
    /\ scraped_properties' = [scraped_properties EXCEPT ![r] = <<>>]
    /\ failed_urls' = [failed_urls EXCEPT ![r] = <<>>]
    /\ parse' = [parse EXCEPT ![r] = <<>>]
    /\ properties' = [properties EXCEPT ![r] = <<>>]
    /\ UNCHANGED <<request_delay, waiters, op, gather_results, arrival, pages>>

\* lines 41-43, 61-64: __aexit__ has awaited close_session.  On the way out of
\* a return the result is returned unless close raised (closeFault); an
\* exception, from the body or from close, reaches the except clause.
run_scraping_job_close(r, closeFault) ==
    LET j == run[r] IN
    /\ j.pc \in {"closing_ok", "closing_exc"}
    /\ IF j.pc = "closing_ok" /\ ~closeFault
         THEN /\ Return(r, j.ret)
              /\ UNCHANGED <<completed_jobs, active_scrapers>>
         ELSE Handler(r, IF closeFault THEN "close_session" ELSE j.err)
    /\ DropScraper(r)
    /\ UNCHANGED <<jobs, manager, job_results>>
    /\ status_reply' = NoReply
    /\ UNCHANGED otherCalls

\* ------------------------------------------------------ run_multiple_jobs
\* values of max_concurrent that make a job of mp URLs behave differently
JobConcurrency(mp) == {-1} \cup 1..Max(1, Min(mp, MaxConc)) \cup (IF mp > 0 THEN {0} ELSE {})

JobDicts ==
    {[job_id |-> id, max_properties |-> mp, max_concurrent |-> k] :
        id \in JobIds, mp \in 0..MaxUrls, k \in -1..MaxConc}

RECURSIVE TotalUrls(_)
TotalUrls(js) ==
    IF js = <<>> THEN 0 ELSE Len(PropertyUrls(Head(js).max_properties)) + TotalUrls(Tail(js))

\* the job lists handed to run_multiple_jobs
JobLists ==
    {js \in UNION {[1..n -> JobDicts] : n \in 0..MaxJobs} :
        /\ Len(js) > 0 => js[1].job_id = 1
        /\ \A i \in 1..Len(js) : js[i].max_concurrent \in JobConcurrency(js[i].max_properties)
        /\ TotalUrls(js) <= MaxJobUrls}

\* lines 320-332: one run_scraping_job task per job, gathered
run_multiple_jobs ==
    /\ manager = "idle"
    /\ \E js \in JobLists :
         /\ jobs' = js
         /\ run' = [r \in Scrapers |->
                      IF r <= Len(js)
                        THEN [IdleRun EXCEPT !.pc = "created", !.job_id = js[r].job_id,
                                             !.max_properties = js[r].max_properties,
                                             !.max_concurrent = js[r].max_concurrent]
                        ELSE IdleRun]
         /\ job_gather' = [i \in 1..Len(js) |-> PendingJob]
    /\ manager' = "gathering"
    /\ UNCHANGED <<fetchVars, scraped_properties, failed_urls, active_scrapers,
                   completed_jobs, job_results>>
    /\ NoCall

\* gather(..., return_exceptions=True) completes when every job has
JobsDone(results) == \A i \in 1..Len(results) : results[i].status # "pending"

\* lines 332-346: build and return the list of job results
run_multiple_jobs_return ==
    /\ manager = "gathering"
    /\ JobsDone(job_gather)
    /\ job_results' = [i \in 1..Len(job_gather) |-> JobEntry(job_gather[i])]
    /\ manager' = "returned"
    /\ UNCHANGED <<fetchVars, scraped_properties, failed_urls, jobs, run,
                   active_scrapers, completed_jobs, job_gather>>
    /\ NoCall

\* --------------------------------------------------------- get_job_status
\* lines 350, 358-360: the keys of active_scrapers, and is there a history entry
Active(id) == active_scrapers[id] # 0

InHistory(id) == \E k \in 1..Len(completed_jobs) : completed_jobs[k].job_id = id

\* lines 357-360: the first entry of completed_jobs with that job_id
FirstEntry(id) ==
    completed_jobs[CHOOSE k \in 1..Len(completed_jobs) :
                      /\ completed_jobs[k].job_id = id
                      /\ \A j \in 1..(k - 1) : completed_jobs[j].job_id # id]

\* variant: only the active jobs are looked up
StatusDictActiveOnly(id) ==
    IF Active(id)
      THEN [job_id |-> id, status |-> "running",
            properties_scraped |-> Len(scraped_properties[active_scrapers[id]])]
      ELSE [job_id |-> id, status |-> "not_found"]

\* variant: the history is searched before the active jobs
StatusDictHistoryFirst(id) ==
    IF InHistory(id)
      THEN FirstEntry(id)
      ELSE IF Active(id)
        THEN [job_id |-> id, status |-> "running",
              properties_scraped |-> Len(scraped_properties[active_scrapers[id]])]
        ELSE [job_id |-> id, status |-> "not_found"]

\* lines 350-363: the dict get_job_status returns
StatusDict(id) ==
    IF Active(id)
      THEN [job_id |-> id, status |-> "running",
            properties_scraped |-> Len(scraped_properties[active_scrapers[id]])]
      ELSE IF InHistory(id)
        THEN FirstEntry(id)
        ELSE [job_id |-> id, status |-> "not_found"]

\* a caller asks for the status of job_id id, at any time
get_job_status(id) ==
    /\ status_reply' = StatusDict(id)
    /\ UNCHANGED <<fetchVars, jobVars, callVars>>

\* ------------------------------------------------- values of the calls
\* get_scraping_stats not called yet
NoStats == [total_properties_scraped |-> -1, failed_urls |-> -1,
            success_rate |-> <<0, 1>>, max_concurrent |-> 0, request_delay |-> 0]

\* SearchCriteria's defaults (models.py lines 90-96): no bound is set.  An
\* Optional number is Unset for None, else its value.
Unset == 0 - 1

NoCriteria == [min_price |-> Unset, max_price |-> Unset, min_bedrooms |-> Unset,
               max_bedrooms |-> Unset, property_types |-> <<>>]

\* filter_properties not called yet
NotFiltered == [called |-> FALSE, out |-> <<>>]

\* ------------------------------------------------------- the job manager
\* lines 256-259
InitManager ==
    /\ scraped_properties = [s \in Scrapers |-> <<>>]
    /\ failed_urls = [s \in Scrapers |-> <<>>]
    /\ jobs = <<>>
    /\ run = [s \in Scrapers |-> IdleRun]
    /\ active_scrapers = [id \in JobIds |-> 0]
    /\ completed_jobs = <<>>
    /\ manager = "idle"
    /\ job_gather = <<>>
    /\ job_results = <<>>
    /\ status_reply = NoReply

\* scrape_search_results not called yet
NoSearch == [called |-> FALSE, max_properties |-> 0, property_urls |-> <<>>,
             returned |-> <<>>]

\* no scrape_property_urls or scrape_search_results call made yet
InitScrapeCalls ==
    /\ attempted = [s \in Scrapers |-> [u \in UrlNames |-> 0]]
    /\ search = NoSearch

\* scheduler.py line 111: a new JobScheduler
InitScheduler ==
    /\ job_history = <<>>
    /\ executions = 0
    /\ scraper_available = TRUE

\* cache_manager.py lines 278-280: a new RateLimiter (default 30 a minute)
InitLimiter ==
    /\ max_requests = 30
    /\ requests = <<>>
    /\ clock = 0
    /\ recorded = <<>>
    /\ wait_time = -1

\* no call made yet
InitCalls ==
    /\ parse = [s \in Scrapers |-> <<>>]
    /\ properties = [s \in Scrapers |-> <<>>]
    /\ stats = NoStats
    /\ candidates = <<>>
    /\ criteria = NoCriteria
    /\ filtered = NotFiltered
    /\ InitScrapeCalls
    /\ InitScheduler
    /\ InitLimiter

Init ==
    /\ max_concurrent = [s \in Scrapers |-> 0]
    /\ request_delay = [s \in Scrapers |-> DefaultRequestDelay]
    /\ session = [s \in Scrapers |-> FALSE]
    /\ semaphore = [s \in Scrapers |-> 0]
    /\ waiters = [s \in Scrapers |-> <<>>]
    /\ current_user_agent = [s \in Scrapers |-> 0]
    /\ op = [s \in Scrapers |-> [i \in OpIds |-> IdleOp]]
    /\ urls = [s \in Scrapers |-> <<>>]
    /\ batch = [s \in Scrapers |-> "none"]
    /\ gather_results = [s \in Scrapers |-> <<>>]
    /\ arrival = [s \in Scrapers |-> <<>>]
    /\ pages = [s \in Scrapers |-> <<>>]
    /\ InitManager
    /\ InitCalls

Next ==
    \/ run_multiple_jobs
    \/ \E r \in Scrapers, startFault \in BOOLEAN : run_scraping_job_start(r, startFault)
    \/ \E r \in Scrapers, i \in OpIds : fetch_page_acquire(r, i)
    \/ \E r \in Scrapers, i \in OpIds : fetch_page_request(r, i)
    \/ \E r \in Scrapers, i \in OpIds, outcome \in Outcomes :
          \E body \in BodiesOf(outcome) : fetch_page_response(r, i, outcome, body)
    \/ \E r \in Scrapers, i \in OpIds : fetch_page_penalty(r, i)
    \/ \E r \in Scrapers, i \in OpIds : fetch_page_unexpected(r, i)
    \/ \E r \in Scrapers : run_scraping_job_scraped(r)
    \/ \E r \in Scrapers, closeFault \in BOOLEAN : run_scraping_job_close(r, closeFault)
    \/ run_multiple_jobs_return

Spec == Init /\ [][Next]_vars

\* ------------------------------------------ run_scraping_job called directly
\* lines 261-265: a caller (the scheduler, one job at a time) creates the
\* coroutine run_scraping_job(job_id, criteria, max_properties, max_concurrent)
run_scraping_job(r, jid, mp, k) ==
    /\ manager = "idle"
    /\ \A q \in Scrapers : run[q].pc = "none"
    /\ run' = [run EXCEPT ![r] = [IdleRun EXCEPT !.pc = "created", !.job_id = jid,
                                                  !.max_properties = mp,
                                                  !.max_concurrent = k]]
    /\ UNCHANGED <<fetchVars, scraped_properties, failed_urls, jobs, active_scrapers,
                   completed_jobs, manager, job_gather, job_results>>
    /\ NoCall

NextJob ==
    \/ \E jid \in JobIds, mp \in 0..MaxUrls :
          \E k \in JobConcurrency(mp) : run_scraping_job(1, jid, mp, k)
    \/ \E startFault \in BOOLEAN : run_scraping_job_start(1, startFault)
    \/ \E i \in OpIds : fetch_page_acquire(1, i)
    \/ \E i \in OpIds : fetch_page_request(1, i)
    \/ \E i \in OpIds, outcome \in Outcomes :
          \E body \in BodiesOf(outcome) : fetch_page_response(1, i, outcome, body)
    \/ \E i \in OpIds : fetch_page_penalty(1, i)
    \/ \E i \in OpIds : fetch_page_unexpected(1, i)
    \/ run_scraping_job_scraped(1)
    \/ \E closeFault \in BOOLEAN : run_scraping_job_close(1, closeFault)

\* Fair scheduling: the event loop runs every task that is ready (a coroutine
\* at its first step, a woken acquirer, a finished sleep, a completed gather,
\* a finished close), and every GET ends with a response, a timeout or an
\* error.  An exception from outside the try body is not owed to anybody.
Fairness ==
    /\ WF_vars(\E startFault \in BOOLEAN : run_scraping_job_start(1, startFault))
    /\ WF_vars(run_scraping_job_scraped(1))
    /\ WF_vars(\E closeFault \in BOOLEAN : run_scraping_job_close(1, closeFault))
    /\ \A i \in OpIds :
          /\ WF_vars(fetch_page_acquire(1, i))
          /\ WF_vars(fetch_page_request(1, i))
          /\ WF_vars(\E outcome \in Outcomes : \E body \in BodiesOf(outcome) :
                        fetch_page_response(1, i, outcome, body))
          /\ WF_vars(fetch_page_penalty(1, i))

SpecLive == Init /\ [][NextJob]_vars /\ Fairness

\* the job manager with a caller that polls get_job_status
NextStatus ==
    \/ Next
    \/ \E id \in JobIds : get_job_status(id)

SpecStatus == Init /\ [][NextStatus]_vars

\* ----------------------------------------------- a scraper used directly
\* URL lists handed to a batch: neighbours differ, so positions are told apart
UrlLists == {[i \in 1..n |-> 1 + ((i + k) % 2)] : n \in 0..MaxUrls, k \in 0..1}

\* the URL of the i-th direct fetch_page call
UrlOfCall(i) == 1 + (i % 2)

InitFetch ==
    /\ max_concurrent \in [Scrapers -> 0..MaxConc]
    /\ \A s \in Scrapers : s # 1 => max_concurrent[s] = 0
    /\ request_delay \in [Scrapers -> 1..MaxDelay]
    /\ \A s \in Scrapers : s # 1 => request_delay[s] = 1
    /\ session \in [Scrapers -> BOOLEAN]
    /\ \A s \in Scrapers : s # 1 => ~session[s]
    /\ semaphore = max_concurrent
    /\ waiters = [s \in Scrapers |-> <<>>]
    /\ current_user_agent = [s \in Scrapers |-> 0]
    /\ op = [s \in Scrapers |-> [i \in OpIds |-> IdleOp]]
    /\ urls = [s \in Scrapers |-> <<>>]
    /\ batch = [s \in Scrapers |-> "none"]
    /\ gather_results = [s \in Scrapers |-> <<>>]
    /\ arrival = [s \in Scrapers |-> <<>>]
    /\ pages = [s \in Scrapers |-> <<>>]
    /\ InitManager
    /\ InitCalls

NextFetch ==
    \/ \E i \in OpIds, r \in 1..MaxRetries : fetch_page_call(1, i, UrlOfCall(i), r)
    \/ \E i \in OpIds : fetch_page_acquire(1, i)
    \/ \E i \in OpIds : fetch_page_request(1, i)
    \/ \E i \in OpIds, outcome \in Outcomes :
          \E body \in BodiesOf(outcome) : fetch_page_response(1, i, outcome, body)
    \/ \E i \in OpIds : fetch_page_penalty(1, i)
    \/ \E i \in OpIds : fetch_page_unexpected(1, i)
    \/ \E us \in UrlLists : fetch_multiple_pages(1, us)
    \/ fetch_multiple_pages_return(1)

SpecFetch == InitFetch /\ [][NextFetch]_vars

\* ------------------------------------- scrape_property_urls used directly
\* URL lists handed to scrape_property_urls: distinct URLs, in either order
ScrapeUrlLists ==
    {[i \in 1..n |-> i] : n \in 0..MaxUrls} \cup {[i \in 1..n |-> n + 1 - i] : n \in 0..MaxUrls}

\* how often u occurs in the list q
Count(q, u) == Cardinality({k \in 1..Len(q) : q[k] = u})

\* the URLs of one more call are on record as attempted
Attempt(s, us) ==
    attempted' = [attempted EXCEPT ![s] = [u \in UrlNames |-> @[u] + Count(us, u)]]

\* lines 140-145: scrape_property_urls awaits fetch_multiple_pages(urls)
scrape_property_urls(s, us) ==
    /\ batch[s] = "none"
    /\ \A i \in OpIds : op[s][i].pc = "idle"
    /\ StartBatch(s, us)
    /\ Attempt(s, us)
    /\ UNCHANGED <<max_concurrent, request_delay, session, semaphore, waiters,
                   current_user_agent, pages>>
    /\ UNCHANGED jobVars
    /\ status_reply' = NoReply
    /\ UNCHANGED <<parse, properties, stats, candidates, criteria, filtered, search,
                   schedulerVars, limiterVars>>

\* lines 113-130, 147-169: gather is complete; fetch_multiple_pages returns
\* the pages, each page is parsed and validated, the kept records extend
\* scraped_properties and are returned
scrape_property_urls_return(s) ==
    /\ run[s].pc = "none"
    /\ batch[s] = "gathering"
    /\ GatherDone(gather_results[s])
    /\ LET pgs == ProcessResults(gather_results[s]) IN
       \E po \in ParseChoices(pgs) :
         LET props == Parsed(urls[s], pgs, po) IN
         /\ pages' = [pages EXCEPT ![s] = pgs]
         /\ parse' = [parse EXCEPT ![s] = po]
         /\ properties' = [properties EXCEPT ![s] = props]
         /\ scraped_properties' = [scraped_properties EXCEPT ![s] = @ \o props]
         /\ failed_urls' = [failed_urls EXCEPT ![s] = @ \o Failed(urls[s], pgs, po)]
    /\ batch' = [batch EXCEPT ![s] = "returned"]
    /\ UNCHANGED <<max_concurrent, request_delay, session, semaphore, waiters,
                   current_user_agent, op, urls, gather_results, arrival>>
    /\ UNCHANGED <<jobs, run, active_scrapers, completed_jobs, manager, job_gather,
                   job_results>>
    /\ status_reply' = NoReply
    /\ UNCHANGED otherCalls

NextScrape ==
    \/ \E us \in ScrapeUrlLists : scrape_property_urls(1, us)
    \/ \E i \in OpIds : fetch_page_acquire(1, i)
    \/ \E i \in OpIds : fetch_page_request(1, i)
    \/ \E i \in OpIds, outcome \in Outcomes :
          \E body \in BodiesOf(outcome) : fetch_page_response(1, i, outcome, body)
    \/ \E i \in OpIds : fetch_page_penalty(1, i)
    \/ \E i \in OpIds : fetch_page_unexpected(1, i)
    \/ scrape_property_urls_return(1)

SpecScrape == InitFetch /\ [][NextScrape]_vars

\* ------------------------------ scrape_property_urls called again and again
RECURSIVE Total(_, _)
Total(counts, n) == IF n = 0 THEN 0 ELSE counts[n] + Total(counts, n - 1)

\* lines 140-145: a further call on a scraper whose last call has returned;
\* the pages and records of that call were locals of it and of its caller
scrape_property_urls_next(s, us) ==
    /\ run[s].pc = "none"
    /\ batch[s] = "returned"
    /\ Total(attempted[s], MaxUrls) + Len(us) <= MaxAttempted
    /\ StartBatch(s, us)
    /\ Attempt(s, us)
    /\ pages' = [pages EXCEPT ![s] = <<>>]
    /\ parse' = [parse EXCEPT ![s] = <<>>]
    /\ properties' = [properties EXCEPT ![s] = <<>>]
    /\ UNCHANGED <<max_concurrent, request_delay, session, semaphore, waiters,
                   current_user_agent>>
    /\ UNCHANGED jobVars
    /\ status_reply' = NoReply
    /\ UNCHANGED <<stats, candidates, criteria, filtered, search, schedulerVars,
                   limiterVars>>

\* Scraper 1 is held by a caller who makes one scrape_property_urls call
\* after another on it, or else the manager runs one job, whose scraper is 2.
NextAccount ==
    \/ \E us \in ScrapeUrlLists :
          run[2].pc = "none" /\ completed_jobs = <<>> /\ scrape_property_urls(1, us)
    \/ \E us \in ScrapeUrlLists : scrape_property_urls_next(1, us)
    \/ scrape_property_urls_return(1)
    \/ \E jid \in JobIds, mp \in 0..MaxUrls :
          \E k \in JobConcurrency(mp) : batch[1] = "none" /\ run_scraping_job(2, jid, mp, k)
    \/ \E startFault \in BOOLEAN : run_scraping_job_start(2, startFault)
    \/ \E s \in Scrapers, i \in OpIds : fetch_page_acquire(s, i)
    \/ \E s \in Scrapers, i \in OpIds : fetch_page_request(s, i)
    \/ \E s \in Scrapers, i \in OpIds, outcome \in Outcomes :
          \E body \in BodiesOf(outcome) : fetch_page_response(s, i, outcome, body)
    \/ \E s \in Scrapers, i \in OpIds : fetch_page_penalty(s, i)
    \/ \E s \in Scrapers, i \in OpIds : fetch_page_unexpected(s, i)
    \/ run_scraping_job_scraped(2)
    \/ \E closeFault \in BOOLEAN : run_scraping_job_close(2, closeFault)

SpecAccount == InitFetch /\ [][NextAccount]_vars

\* ------------------------------------------------------ get_scraping_stats
\* variant: the failed URLs are left out of the denominator
SuccessRateOfScraped(succeeded, failed) == <<succeeded * 100, Max(succeeded, 1)>>

\* line 248: len(scraped) / max(len(scraped) + len(failed), 1) * 100, kept as
\* the exact fraction <<numerator, denominator>>
SuccessRate(succeeded, failed) == <<succeeded * 100, Max(succeeded + failed, 1)>>

\* lines 245-251: the dict get_scraping_stats returns
Stats(s) ==
    [total_properties_scraped |-> Len(scraped_properties[s]),
     failed_urls |-> Len(failed_urls[s]),
     success_rate |-> SuccessRate(Len(scraped_properties[s]), Len(failed_urls[s])),
     max_concurrent |-> max_concurrent[s],
     request_delay |-> request_delay[s]]

get_scraping_stats(s) ==
    /\ stats' = Stats(s)
    /\ status_reply' = NoReply
    /\ UNCHANGED <<fetchVars, jobVars, parse, properties, candidates, criteria, filtered>>
    /\ UNCHANGED <<attempted, search, schedulerVars, limiterVars>>

\* a scraper after some scrape_property_urls calls: what it has accumulated
Repeat(n) == [i \in 1..n |-> 1]

InitStats ==
    /\ max_concurrent \in [Scrapers -> 0..MaxConc]
    /\ \A s \in Scrapers : s # 1 => max_concurrent[s] = 0
    /\ request_delay \in [Scrapers -> 1..MaxDelay]
    /\ \A s \in Scrapers : s # 1 => request_delay[s] = 1
    /\ session = [s \in Scrapers |-> FALSE]
    /\ semaphore = max_concurrent
    /\ waiters = [s \in Scrapers |-> <<>>]
    /\ current_user_agent = [s \in Scrapers |-> 0]
    /\ op = [s \in Scrapers |-> [i \in OpIds |-> IdleOp]]
    /\ urls = [s \in Scrapers |-> <<>>]
    /\ batch = [s \in Scrapers |-> "none"]
    /\ gather_results = [s \in Scrapers |-> <<>>]
    /\ arrival = [s \in Scrapers |-> <<>>]
    /\ pages = [s \in Scrapers |-> <<>>]
    /\ \E n \in 0..MaxScraped, m \in 0..MaxFailed :
          /\ scraped_properties = [s \in Scrapers |-> IF s = 1 THEN Repeat(n) ELSE <<>>]
          /\ failed_urls = [s \in Scrapers |-> IF s = 1 THEN Repeat(m) ELSE <<>>]
    /\ jobs = <<>>
    /\ run = [s \in Scrapers |-> IdleRun]
    /\ active_scrapers = [id \in JobIds |-> 0]
    /\ completed_jobs = <<>>
    /\ manager = "idle"
    /\ job_gather = <<>>
    /\ job_results = <<>>
    /\ status_reply = NoReply
    /\ InitCalls

NextStats == get_scraping_stats(1)

SpecStats == InitStats /\ [][NextStats]_vars

\* ------------------------------------------------------- filter_properties
\* Optional prices and bedroom counts, None included
Values == {Unset} \cup 0..MaxValue

\* property_type strings; "" stands for None and for the empty string
Types == {"", "House", "condo"}

\* str.lower on those strings
Lower(t) == CASE t = "House" -> "house"
              [] t = "CONDO" -> "condo"
              [] OTHER -> t

\* Property (models.py lines 13, 22, 27) as far as filter_properties reads it
Records == [price : Values, bedrooms : Values, property_type : Types]

\* SearchCriteria (models.py lines 90-96) as far as filter_properties reads it
Criteria == [min_price : Values, max_price : Values, min_bedrooms : Values,
             max_bedrooms : Values, property_types : {<<>>, <<"house">>, <<"CONDO", "house">>}]

\* Python's truth value of an Optional number: None and 0 are false
TruthyNumber(v) == v # Unset /\ v # 0

\* lines 222-236: does the loop body reach filtered.append(prop)
Passes(prop, c) ==
    /\ ~(TruthyNumber(c.min_price) /\ TruthyNumber(prop.price) /\ prop.price < c.min_price)
    /\ ~(TruthyNumber(c.max_price) /\ TruthyNumber(prop.price) /\ prop.price > c.max_price)
    /\ ~(TruthyNumber(c.min_bedrooms) /\ TruthyNumber(prop.bedrooms)
            /\ prop.bedrooms < c.min_bedrooms)
    /\ ~(TruthyNumber(c.max_bedrooms) /\ TruthyNumber(prop.bedrooms)
            /\ prop.bedrooms > c.max_bedrooms)
    /\ ~(/\ c.property_types # <<>>
          /\ prop.property_type # ""
          /\ \A k \in 1..Len(c.property_types) :
                Lower(c.property_types[k]) # Lower(prop.property_type))

\* lines 216-241
filter_properties ==
    /\ filtered' = [called |-> TRUE,
                    out |-> LET Keep(prop) == Passes(prop, criteria)
                            IN SelectSeq(candidates, Keep)]
    /\ status_reply' = NoReply
    /\ UNCHANGED <<fetchVars, jobVars, parse, properties, stats, candidates, criteria>>
    /\ UNCHANGED <<attempted, search, schedulerVars, limiterVars>>

InitFilter ==
    /\ max_concurrent = [s \in Scrapers |-> 0]
    /\ request_delay = [s \in Scrapers |-> DefaultRequestDelay]
    /\ session = [s \in Scrapers |-> FALSE]
    /\ semaphore = [s \in Scrapers |-> 0]
    /\ waiters = [s \in Scrapers |-> <<>>]
    /\ current_user_agent = [s \in Scrapers |-> 0]
    /\ op = [s \in Scrapers |-> [i \in OpIds |-> IdleOp]]
    /\ urls = [s \in Scrapers |-> <<>>]
    /\ batch = [s \in Scrapers |-> "none"]
    /\ gather_results = [s \in Scrapers |-> <<>>]
    /\ arrival = [s \in Scrapers |-> <<>>]
    /\ pages = [s \in Scrapers |-> <<>>]
    /\ InitManager
    /\ parse = [s \in Scrapers |-> <<>>]
    /\ properties = [s \in Scrapers |-> <<>>]
    /\ stats = NoStats
    /\ candidates \in UNION {[1..n -> Records] : n \in 0..MaxRecords}
    /\ criteria \in Criteria
    /\ filtered = NotFiltered
    /\ InitScrapeCalls
    /\ InitScheduler
    /\ InitLimiter

NextFilter == filter_properties

SpecFilter == InitFilter /\ [][NextFilter]_vars

\* -------------------------------------------------- scrape_search_results
\* scrapers and manager as constructed, nothing running, no call made on them
InitAtRest ==
    /\ max_concurrent = [s \in Scrapers |-> 0]
    /\ request_delay = [s \in Scrapers |-> DefaultRequestDelay]
    /\ session = [s \in Scrapers |-> FALSE]
    /\ semaphore = [s \in Scrapers |-> 0]
    /\ waiters = [s \in Scrapers |-> <<>>]
    /\ current_user_agent = [s \in Scrapers |-> 0]
    /\ op = [s \in Scrapers |-> [i \in OpIds |-> IdleOp]]
    /\ urls = [s \in Scrapers |-> <<>>]
    /\ batch = [s \in Scrapers |-> "none"]
    /\ gather_results = [s \in Scrapers |-> <<>>]
    /\ arrival = [s \in Scrapers |-> <<>>]
    /\ pages = [s \in Scrapers |-> <<>>]
    /\ InitManager
    /\ parse = [s \in Scrapers |-> <<>>]
    /\ properties = [s \in Scrapers |-> <<>>]
    /\ stats = NoStats
    /\ candidates = <<>>
    /\ criteria = NoCriteria
    /\ filtered = NotFiltered

\* Which URLs end as a returned record (page fetched, parsed, valid, passing
\* the criteria) is the environment's choice: <<d, r>> keeps URL i when
\* i % d = r, so <<1, 0>> keeps all and <<1, 1>> none.
KeepPatterns == {<<d, r>> : d \in 1..3, r \in 0..2}

\* lines 209-214: the records left of the URLs us under pattern pat
Survivors(us, pat) ==
    LET Keep(u) == u % pat[1] = pat[2] IN SelectSeq(us, Keep)

\* lines 200-214, the fetches of scrape_property_urls taken as one step
scrape_search_results ==
    /\ ~search.called
    /\ \E pat \in KeepPatterns :
          LET property_urls == PropertyUrls(search.max_properties) IN
          search' = [search EXCEPT !.called = TRUE,
                                   !.property_urls = property_urls,
                                   !.returned = Survivors(property_urls, pat)]
    /\ status_reply' = NoReply
    /\ UNCHANGED <<fetchVars, jobVars, parse, properties, stats, candidates, criteria,
                   filtered, attempted, schedulerVars, limiterVars>>

\* the max_properties handed to the call, negative values included
InitSearch ==
    /\ InitAtRest
    /\ attempted = [s \in Scrapers |-> [u \in UrlNames |-> 0]]
    /\ \E mp \in (0 - 2)..MaxProperties : search = [NoSearch EXCEPT !.max_properties = mp]
    /\ InitScheduler
    /\ InitLimiter

NextSearch == scrape_search_results

SpecSearch == InitSearch /\ [][NextSearch]_vars

\* ------------------------------------- JobScheduler.run_scraping_job
\* A job record (scheduler.py lines 314-321, 325-331, 338-345, 359-365); run
\* stands for its start_time: the number of the call that made it.
JobRecord(n, status) == [run |-> n, status |-> status]

\* What a call ends as: the manager's result was 'completed' or not (312-331),
\* the mock branch (333-345), or an exception inside the try statement, such
\* as a search_criteria without 'location' (282-286).
RunOutcomes(available) ==
    IF available THEN {"completed", "failed", "error"} ELSE {"completed (mock)", "error"}

\* lines 353-354: keep only the last 100 records
Trim(history) ==
    IF Len(history) > HistoryCap
      THEN SubSeq(history, Len(history) - HistoryCap + 1, Len(history))
      ELSE history

\* lines 273-366, the job itself taken as one step: the record is appended
\* and the list cut at line 350-354, or, in the except clause, appended at
\* line 366.  (A job_config without 'name' raises at line 275, before the try
\* statement, and changes nothing.)
scheduler_run_scraping_job(outcome) ==
    /\ executions < HistoryCap + MaxRuns
    /\ outcome \in RunOutcomes(scraper_available)
    /\ executions' = executions + 1
    /\ job_history' = IF outcome = "error"
                        THEN Append(job_history, JobRecord(executions + 1, outcome))
                        ELSE Trim(Append(job_history, JobRecord(executions + 1, outcome)))
    /\ status_reply' = NoReply
    /\ UNCHANGED <<fetchVars, jobVars, parse, properties, stats, candidates, criteria,
                   filtered, attempted, search, scraper_available, limiterVars>>

\* a scheduler that has run 99 or 100 jobs, none of which ended in the
\* except clause
InitHistory ==
    /\ InitAtRest
    /\ InitScrapeCalls
    /\ scraper_available \in BOOLEAN
    /\ executions \in (HistoryCap - 1)..HistoryCap
    /\ job_history = [n \in 1..executions |->
                         JobRecord(n, IF scraper_available THEN "completed"
                                                           ELSE "completed (mock)")]
    /\ InitLimiter

NextHistory ==
    \E outcome \in {"completed", "failed", "completed (mock)", "error"} :
        scheduler_run_scraping_job(outcome)

SpecHistory == InitHistory /\ [][NextHistory]_vars

\* ------------------------------------------------ RateLimiter.wait_if_needed
\* seconds between the return of one call and the next call: the clock does
\* not go back
Gaps == {0, 1, Window - 1, Window, Window + 1}

\* lines 288 and 303: the requests less than a minute old
Recent(reqs, now) ==
    LET Keep(req_time) == now - req_time < Window IN SelectSeq(reqs, Keep)

\* line 293: min(self.requests)
Oldest(reqs) ==
    reqs[CHOOSE k \in 1..Len(reqs) : \A j \in 1..Len(reqs) : reqs[k] <= reqs[j]]

\* variant: no time is left to wait
WaitTimeNone(now, oldest_request) == 0

\* line 294: until the oldest request is a minute old, and one second more
WaitTime(now, oldest_request) == Window - (now - oldest_request) + Buffer

\* lines 283-306; gap is the time since the last call returned and late is
\* what time.sleep overran by
wait_if_needed(gap, late) ==
    LET now == clock + gap
        kept == Recent(requests, now)
        wait == IF Len(kept) >= max_requests THEN WaitTime(now, Oldest(kept)) ELSE 0
        woken == now + wait + late
    IN
    /\ Len(recorded) < MaxCalls
    /\ IF Len(kept) >= max_requests /\ wait > 0
         THEN /\ requests' = Append(Recent(kept, woken), woken)
              /\ recorded' = Append(recorded, [called |-> now, stamp |-> woken])
              /\ clock' = woken
              /\ wait_time' = wait
         ELSE /\ late = 0
              /\ requests' = Append(kept, now)
              /\ recorded' = Append(recorded, [called |-> now, stamp |-> now])
              /\ clock' = now
              /\ wait_time' = 0
    /\ status_reply' = NoReply
    /\ UNCHANGED <<fetchVars, jobVars, parse, properties, stats, candidates, criteria,
                   filtered, attempted, search, schedulerVars, max_requests>>

\* a new RateLimiter(max_requests_per_minute) with a limit of at least 1
InitRate ==
    /\ InitAtRest
    /\ InitScrapeCalls
    /\ InitScheduler
    /\ max_requests \in 1..MaxLimit
    /\ requests = <<>>
    /\ clock = 0
    /\ recorded = <<>>
    /\ wait_time = -1

NextRate == \E gap \in Gaps, late \in 0..1 : wait_if_needed(gap, late)

SpecRate == InitRate /\ [][NextRate]_vars

\* ======================================================== properties
\* (scraper 1 is the one the direct-use specification exercises)
DoneOps(s) == {i \in OpIds : op[s][i].pc = "done"}

\* C1: with max_concurrent = k, at most k fetch_page calls are at any time
\* between acquiring the semaphore and releasing it.
C1_ConcurrencyBound ==
    \A s \in Scrapers : Cardinality(InFlight(s)) <= max_concurrent[s]

\* C1 witness: every slot is taken and a further call is queued behind them
C1_Witness ==
    /\ max_concurrent[1] >= 1
    /\ Cardinality(InFlight(1)) = max_concurrent[1]
    /\ \E i \in OpIds : op[1][i].pc = "waiting"

\* C2: fetch_multiple_pages returns one entry per input URL, and entry i is
\* the body or None that the fetch of urls[i] ended with, in any completion order.
C2_BatchOrder ==
    \A s \in Scrapers : batch[s] = "returned" =>
        /\ Len(pages[s]) = Len(urls[s])
        /\ \A i \in 1..Len(urls[s]) :
              /\ op[s][i].url = urls[s][i]
              /\ pages[s][i].kind \in {"str", "None"}
              /\ pages[s][i].kind = "str" =>
                    pages[s][i] = op[s][i].result /\ pages[s][i].url = urls[s][i]
              /\ pages[s][i].kind = "None" => op[s][i].result.kind # "str"

\* C2 witness: the second URL finished first, with a body; the first failed
C2_Witness ==
    /\ batch[1] = "returned"
    /\ Len(urls[1]) = 2
    /\ arrival[1] = <<2, 1>>
    /\ pages[1][1] = None
    /\ pages[1][2] = Str(urls[1][2], "html")

\* C3: a call with retries = r whose every attempt fails issues exactly r GETs
\* and returns None.
C3_RetryExhaustion ==
    \A s \in Scrapers : \A i \in OpIds :
        LET o == op[s][i] IN
        /\ o.gets <= o.retries
        /\ (o.pc = "done" /\ session[s] /\ ~o.fault /\ o.first200 = -1) =>
              (o.gets = o.retries /\ o.result = None)

\* C3 witness: three failed attempts out of three, then None
C3_Witness ==
    \E i \in OpIds :
        /\ session[1]
        /\ op[1][i].pc = "done"
        /\ op[1][i].retries = DefaultRetries
        /\ op[1][i].gets = DefaultRetries
        /\ op[1][i].prev = "fail"
        /\ op[1][i].result = None

C6_SlotReleased ==
    \A s \in Scrapers :
        /\ semaphore[s] + Cardinality(InFlight(s)) = max_concurrent[s]
        /\ (\A i \in OpIds : op[s][i].pc \in {"idle", "done"}) =>
              semaphore[s] = max_concurrent[s]

\* C6 witness: a batch ended with one call raising and one returning a body
C6_Witness ==
    /\ batch[1] = "returned"
    /\ max_concurrent[1] >= 1
    /\ \E i, j \in OpIds :
          /\ op[1][i].result = Raised
          /\ op[1][j].result.kind = "str"
    /\ semaphore[1] = max_concurrent[1]

\* C7: a failed attempt (timeout, network exception, non-200, no session)
\* never makes fetch_page raise, and a str is returned only after a 200.
C7_NoEscape ==
    \A s \in Scrapers : \A i \in OpIds :
        LET o == op[s][i] IN
        /\ o.result.kind = "exception" => o.fault
        /\ o.result.kind = "str" => (o.prev = "200" /\ o.first200 = o.attempt)
        /\ (o.pc = "done" /\ ~o.fault) => o.result.kind \in {"None", "str"}

\* C7 witness: a call on a scraper without session ended with None
C7_Witness ==
    \E i \in OpIds :
        /\ ~session[1]
        /\ op[1][i].pc = "done"
        /\ op[1][i].attempt = op[1][i].retries - 1
        /\ op[1][i].result = None

\* C8: when one fetch of a batch raises, the batch still returns after every
\* fetch has ended, with None at the raising position and every other entry
\* being what its own fetch ended with.
C8_PartialFailure ==
    \A s \in Scrapers : batch[s] = "returned" =>
        /\ Len(pages[s]) = Len(urls[s])
        /\ \A i \in 1..Len(urls[s]) :
              /\ op[s][i].pc = "done"
              /\ op[s][i].result = Raised => pages[s][i] = None
              /\ op[s][i].result # Raised => pages[s][i] = op[s][i].result

\* C8 witness: position 1 raised, position 2 returned its body
C8_Witness ==
    /\ batch[1] = "returned"
    /\ Len(urls[1]) = 2
    /\ op[1][1].result = Raised
    /\ pages[1][1] = None
    /\ pages[1][2] = Str(urls[1][2], "html")

\* C9: run_multiple_jobs returns one result per job, result i carrying the
\* job_id of jobs[i] in any completion order; a failing job gives a 'failed'
\* result at its own position, every job still runs to its end and returns
\* its own result, and run_multiple_jobs returns rather than raises.
C9_JobOrder ==
    manager = "returned" =>
        /\ Len(job_results) = Len(jobs)
        /\ \A i \in 1..Len(jobs) :
              /\ job_results[i].job_id = jobs[i].job_id
              /\ job_results[i].status \in {"completed", "failed"}
              /\ run[i].pc = "done"
              /\ job_results[i] = run[i].ret
              /\ jobs[i].max_concurrent < 0 => job_results[i].status = "failed"
              /\ job_results[i].property_count <= Len(PropertyUrls(jobs[i].max_properties))
              /\ \E k \in 1..Len(completed_jobs) : completed_jobs[k] = job_results[i]

\* C9 witness: the second job finished first and completed with a record,
\* the first job failed
C9_Witness ==
    /\ manager = "returned"
    /\ Len(jobs) = 2
    /\ jobs[1].job_id # jobs[2].job_id
    /\ completed_jobs[1].job_id = jobs[2].job_id
    /\ job_results[1].status = "failed"
    /\ job_results[2].status = "completed"
    /\ job_results[2].property_count = 1

\* C10: run_scraping_job always ends by returning a result dict; when an
\* exception occurred (building the scraper, starting the session, building
\* the result, closing the session) the dict has status 'failed' and the
\* error, and at that return the job_id is not a key of active_scrapers and
\* the failed dict is the newest entry of completed_jobs.
C10_JobNeverRaises ==
    [][\A r \in Scrapers :
         (run[r].pc # "done" /\ run'[r].pc = "done") =>
            LET res == run'[r].ret IN
            /\ res.status \in {"completed", "failed"}
            /\ res.job_id = run[r].job_id
            /\ (run[r].pc = "closing_exc" \/ run[r].max_concurrent < 0) =>
                  res.status = "failed"
            /\ res.status = "completed" => run[r].pc = "closing_ok"
            /\ res.status = "failed" =>
                  /\ res.error \in {"ValueError", "start_session", "build", "close_session"}
                  /\ active_scrapers'[res.job_id] = 0
                  /\ completed_jobs' = Append(completed_jobs, res)
      ]_vars

\* C10 witness: a job that raised after registering returned a failed result
C10_Witness ==
    \E r \in Scrapers :
        /\ run[r].pc = "done"
        /\ run[r].ret.status = "failed"
        /\ run[r].ret.error = "build"
        /\ active_scrapers[run[r].job_id] = 0
        /\ \E k \in 1..Len(completed_jobs) : completed_jobs[k] = run[r].ret

\* the job_ids of the runs are pairwise distinct
DistinctJobIds == \A i, j \in 1..Len(jobs) : i # j => jobs[i].job_id # jobs[j].job_id

\* C11 as stated: no job_id is at the same time a key of active_scrapers and
\* the job_id of an entry of completed_jobs, runs that reuse a job_id included.
C11_NeverInBoth == \A id \in JobIds : ~(Active(id) /\ InHistory(id))

\* C11 amended: for runs with pairwise distinct job_ids, no job_id is at the
\* same time a key of active_scrapers and the job_id of an entry of
\* completed_jobs.
C11_NeverInBothDistinct ==
    DistinctJobIds => \A id \in JobIds : Active(id) => ~InHistory(id)

\* C11 witness: of two jobs with different ids one is in the history as
\* completed while the other is still registered
C11_Witness ==
    /\ Len(jobs) = 2
    /\ DistinctJobIds
    /\ \E k \in 1..Len(completed_jobs) :
          completed_jobs[k].job_id = jobs[1].job_id /\ completed_jobs[k].status = "completed"
    /\ Active(jobs[2].job_id)
    /\ run[2].pc = "gathering"

\* The status of a job run: Pending until run_scraping_job takes its first
\* step, Running until an entry is recorded for it, then the recorded status
\* (line 281 'completed', line 303 'failed').
JobStatus(j) ==
    CASE j.pc = "none" -> "none"
      [] j.pc = "created" -> "Pending"
      [] j.pc \in {"gathering", "closing_exc"} -> "Running"
      [] j.pc = "closing_ok" -> "Completed"
      [] OTHER -> IF j.ret.status = "completed" THEN "Completed" ELSE "Failed"

\* C12: a job run moves only along Pending -> Running -> Completed or
\* Pending -> Running -> Failed (a run that fails in its first step passes
\* through Running inside that step), reaches one terminal status and never
\* leaves it, and no step modifies or removes an entry of completed_jobs.
C12_JobStateMachine ==
    [][/\ \A r \in Scrapers :
            LET a == JobStatus(run[r])
                b == JobStatus(run'[r])
            IN a # b => <<a, b>> \in {<<"none", "Pending">>, <<"Pending", "Running">>,
                                      <<"Pending", "Failed">>, <<"Running", "Completed">>,
                                      <<"Running", "Failed">>}
       /\ Len(completed_jobs') >= Len(completed_jobs)
       /\ SubSeq(completed_jobs', 1, Len(completed_jobs)) = completed_jobs
      ]_vars

\* C13: get_job_status(job_id) returns status 'running' exactly when job_id
\* is a key of active_scrapers, otherwise a stored result with that job_id
\* when completed_jobs has one, otherwise status 'not_found'; the call
\* changes neither active_scrapers nor completed_jobs.
C13_StatusLookup ==
    [][status_reply' # NoReply =>
         LET d == status_reply'
             id == d.job_id
         IN
         /\ id \in JobIds
         /\ d.status = "running" <=> active_scrapers[id] # 0
         /\ d.status = "running" =>
               d.properties_scraped = Len(scraped_properties[active_scrapers[id]])
         /\ (active_scrapers[id] = 0 /\ InHistory(id)) =>
               \E k \in 1..Len(completed_jobs) :
                   completed_jobs[k] = d /\ completed_jobs[k].job_id = id
         /\ d.status = "not_found" <=> (active_scrapers[id] = 0 /\ ~InHistory(id))
         /\ UNCHANGED <<active_scrapers, completed_jobs>>
      ]_vars

\* C13 witness: 'running' was reported for a job_id that also has a stored
\* result, from an earlier run under the same id
C13_Witness ==
    /\ status_reply # NoReply
    /\ status_reply.status = "running"
    /\ InHistory(status_reply.job_id)

\* the records a job's own pages gave: its URLs whose page parsed and validated
OwnRecords(r) ==
    LET Keep(i) == parse[r][i] = "valid"
        kept == SelectSeq(Indices(Len(parse[r])), Keep)
    IN [k \in 1..Len(kept) |-> urls[r][kept[k]]]

\* a is b with some elements left out (the elements of b are distinct)
IsSubSeq(a, b) ==
    /\ \A k \in 1..Len(a) : \E i \in 1..Len(b) : b[i] = a[k]
    /\ \A k, l \in 1..Len(a) : k < l => a[k] < a[l]

\* C14: a job whose pages all parse to null, or whose records are all
\* filtered out, records and returns a 'completed' result with an empty
\* properties list (it ends 'failed' only when closing the session raises);
\* with other jobs running concurrently, every job's result is made of its
\* own records only.
C14_EmptyIsCompleted ==
    [][\A r \in Scrapers :
         run[r].pc = "closing_ok" =>
            LET res == run[r].ret IN
            /\ res.status = "completed"
            /\ res.job_id = run[r].job_id
            /\ \E k \in 1..Len(completed_jobs) : completed_jobs[k] = res
            /\ properties[r] = OwnRecords(r)
            /\ IsSubSeq(res.properties, OwnRecords(r))
            /\ res.property_count = Len(res.properties)
            /\ res.total_properties_scraped = Len(OwnRecords(r))
            /\ (\A i \in 1..Len(parse[r]) : parse[r][i] = "null") => res.properties = <<>>
            /\ run'[r].pc = "done" =>
                  \/ run'[r].ret = res
                  \/ run'[r].ret.status = "failed" /\ run'[r].ret.error = "close_session"
      ]_vars

\* C14 witness: the second job fetched its page and parsed it to null, and
\* has recorded a completed result without records, while the first job has
\* completed with its own record
C14_Witness ==
    /\ Len(jobs) = 2
    /\ run[2].pc = "closing_ok"
    /\ parse[2] = <<"null">>
    /\ run[2].ret.failed_urls = 0
    /\ run[2].ret.status = "completed"
    /\ run[2].ret.properties = <<>>
    /\ run[1].pc = "done"
    /\ run[1].ret.status = "completed"
    /\ run[1].ret.property_count = 1

\* position i of the batch gave a record: a non-empty body, parsed, validated
GaveRecord(s, i) == Truthy(pages[s][i]) /\ parse[s][i] = "valid"

InSeq(x, q) == \E k \in 1..Len(q) : q[k] = x

\* the position of URL u in the batch (URLs of a batch are distinct)
PosOf(s, u) == CHOOSE i \in 1..Len(urls[s]) : urls[s][i] = u

\* C15: scrape_property_urls returns exactly the records of the URLs whose
\* fetch returned a non-empty body, whose parse returned a record and whose
\* record validated, in the order of the input URLs; a record that failed
\* validation is neither returned nor in scraped_properties.
C15_ValidRecordsOnly ==
    batch[1] = "returned" =>
        LET ps == properties[1] IN
        /\ Len(parse[1]) = Len(urls[1])
        /\ \A i \in 1..Len(urls[1]) : GaveRecord(1, i) <=> InSeq(urls[1][i], ps)
        /\ Len(ps) = Cardinality({i \in 1..Len(urls[1]) : GaveRecord(1, i)})
        /\ \A k, l \in 1..Len(ps) : k < l => PosOf(1, ps[k]) < PosOf(1, ps[l])
        /\ scraped_properties[1] = ps
        /\ \A i \in 1..Len(urls[1]) :
              parse[1][i] = "invalid" =>
                 ~InSeq(urls[1][i], ps) /\ ~InSeq(urls[1][i], scraped_properties[1])

\* C15 witness: of two fetched pages the first gave a record that failed
\* validation, the second a valid one
C15_Witness ==
    /\ batch[1] = "returned"
    /\ Len(urls[1]) = 2
    /\ Truthy(pages[1][1])
    /\ parse[1] = <<"invalid", "valid">>
    /\ properties[1] = <<urls[1][2]>>

\* C16: after scrape_property_urls(urls), every URL whose fetch failed, whose
\* parse raised or returned null, or whose record failed validation is in
\* failed_urls, and no URL whose record was kept is.
C16_FailedUrls ==
    batch[1] = "returned" =>
        \A i \in 1..Len(urls[1]) :
            IF GaveRecord(1, i)
              THEN ~InSeq(urls[1][i], failed_urls[1])
              ELSE InSeq(urls[1][i], failed_urls[1])

\* C17: an exception raised while one page is parsed or validated does not
\* abort scrape_property_urls: its URL is in failed_urls, every page of the
\* batch has been handled, and the other pages' records are all returned.
C17_ParseExceptionIsolated ==
    (batch[1] = "returned" /\ \E i \in 1..Len(parse[1]) : parse[1][i] = "raise") =>
        /\ Len(parse[1]) = Len(urls[1])
        /\ \A i \in 1..Len(urls[1]) :
              /\ parse[1][i] = "raise" =>
                    InSeq(urls[1][i], failed_urls[1]) /\ ~InSeq(urls[1][i], properties[1])
              /\ GaveRecord(1, i) => InSeq(urls[1][i], properties[1])
        /\ Len(properties[1]) = Cardinality({i \in 1..Len(urls[1]) : GaveRecord(1, i)})

\* C17 witness: the first page's parse raised, the second page's record is
\* returned
C17_Witness ==
    /\ batch[1] = "returned"
    /\ parse[1] = <<"raise", "valid">>
    /\ failed_urls[1] = <<urls[1][1]>>
    /\ properties[1] = <<urls[1][2]>>

\* C18: get_scraping_stats reports success_rate = succeeded / (succeeded +
\* failed) * 100 with succeeded = len(scraped_properties) and failed =
\* len(failed_urls) (7 and 3 give 70), and 0, with no division by zero, when
\* both are 0.
C18_SuccessRate ==
    stats # NoStats =>
        LET succeeded == Len(scraped_properties[1])
            failed == Len(failed_urls[1])
            num == stats.success_rate[1]
            den == stats.success_rate[2]
        IN
        /\ stats.total_properties_scraped = succeeded
        /\ stats.failed_urls = failed
        /\ den > 0
        /\ succeeded + failed > 0 => num * (succeeded + failed) = succeeded * 100 * den
        /\ (succeeded = 7 /\ failed = 3) => num = 70 * den
        /\ (succeeded = 0 /\ failed = 0) => num = 0

\* C18 witness: the stats of a scraper with 7 records and 3 failed URLs
C18_Witness ==
    /\ stats # NoStats
    /\ Len(scraped_properties[1]) = 7
    /\ Len(failed_urls[1]) = 3
    /\ stats.success_rate = <<700, 10>>

\* v lies in [lo, hi], each bound applying only when it is set
InRange(v, lo, hi) ==
    /\ lo # Unset => (v # Unset /\ v >= lo)
    /\ hi # Unset => (v # Unset /\ v <= hi)

\* C19: filter_properties returns exactly the sub-list, in input order, of
\* the records whose price lies in [min_price, max_price], whose bedrooms lie
\* in [min_bedrooms, max_bedrooms] and whose property_type is, ignoring case,
\* in property_types, each bound applying only when it is set; a record that
\* violates a set bound is never returned.
C19_FilterExact ==
    filtered.called =>
        LET c == criteria
            Wanted(prop) ==
                /\ InRange(prop.price, c.min_price, c.max_price)
                /\ InRange(prop.bedrooms, c.min_bedrooms, c.max_bedrooms)
                /\ c.property_types # <<>> =>
                      \E k \in 1..Len(c.property_types) :
                          Lower(c.property_types[k]) = Lower(prop.property_type)
        IN filtered.out = SelectSeq(candidates, Wanted)

\* C20: under fair scheduling, with every network call returning or timing
\* out, every fetch_page call started returns, every batch completes and
\* every run_scraping_job call started returns, whatever max_concurrent the
\* job was given.
C20_EveryCallReturns ==
    /\ (run[1].pc = "created") ~> (run[1].pc = "done")
    /\ (batch[1] = "gathering") ~> (batch[1] # "gathering")
    /\ \A i \in OpIds : (op[1][i].pc = "created") ~> (op[1][i].pc \in {"done", "idle"})

\* C20 amended: under fair scheduling, with every network call returning or
\* timing out, every fetch_page call started returns, every batch completes
\* and every run_scraping_job call started returns, for every max_concurrent
\* value other than 0.
C20_EveryCallReturnsNonZero ==
    /\ (run[1].pc = "created" /\ run[1].max_concurrent # 0) ~> (run[1].pc = "done")
    /\ (batch[1] = "gathering" /\ max_concurrent[1] # 0) ~> (batch[1] # "gathering")
    /\ \A i \in OpIds :
          (op[1][i].pc = "created" /\ max_concurrent[1] # 0)
              ~> (op[1][i].pc \in {"done", "idle"})

\* C20 witness: a job with one slot and two URLs, so that one fetch had to
\* wait for the other, has returned with both records
C20_Witness ==
    /\ run[1].pc = "done"
    /\ run[1].max_concurrent = 1
    /\ run[1].max_properties = 2
    /\ run[1].ret.status = "completed"
    /\ run[1].ret.total_properties_scraped = 2

C22_SlotHeldThroughout ==
    \A s \in Scrapers :
        /\ semaphore[s] + Cardinality(InFlight(s)) = max_concurrent[s]
        /\ \A i \in OpIds :
              op[s][i].pc \in {"created", "waiting"} =>
                  (op[s][i].gets = 0 /\ op[s][i].attempt = 0)
        /\ Cardinality(InFlight(s)) = max_concurrent[s] =>
              \A i \in OpIds \ InFlight(s) : op[s][i].pc # "get"

\* C22 witness: the only slot is held by a call in its 429 sleep, after its
\* second attempt, while another call is suspended
C22_Witness ==
    /\ max_concurrent[1] = 1
    /\ semaphore[1] = 0
    /\ \E i, j \in OpIds :
          /\ op[1][i].pc = "penalty"
          /\ op[1][i].attempt = 1
          /\ op[1][j].pc = "waiting"

\* the request attempts a fetch_page call has made: iterations that reached
\* line 83
IssuedBy(o) ==
    CASE o.pc \in {"idle", "created", "waiting"} -> 0
      [] o.pc = "sleep" -> o.attempt
      [] OTHER -> o.attempt + 1

RECURSIVE SumIssued(_, _)
SumIssued(ops, n) == IF n = 0 THEN 0 ELSE IssuedBy(ops[n]) + SumIssued(ops, n - 1)

\* no call of the scraper was ended by an exception from outside the try body
\* (such a call's attempts are not on record)
Counted(ops) == \A i \in OpIds : ~ops[i].fault

\* C23: the user-agent cursor stays within 0..4 and advances by exactly one,
\* modulo 5, on every request attempt and on nothing else, under any
\* interleaving: it is the number of attempts made so far modulo 5, and the
\* n-th attempt carries agent n mod 5.
C23_UserAgentRotation ==
    [][\A s \in Scrapers :
          LET n == SumIssued(op[s], MaxUrls)
              m == SumIssued(op'[s], MaxUrls)
          IN
          /\ current_user_agent[s] \in 0..(NumUserAgents - 1)
          /\ current_user_agent'[s] \in 0..(NumUserAgents - 1)
          /\ (Counted(op[s]) /\ Counted(op'[s])) =>
                /\ current_user_agent[s] = n % NumUserAgents
                /\ m \in {n, n + 1}
                /\ current_user_agent'[s] = m % NumUserAgents
                /\ \A i \in OpIds :
                      (op[s][i].pc = "sleep" /\ op'[s][i].pc = "get") =>
                          op'[s][i].ua = n % NumUserAgents
      ]_vars

\* C23 witness: two interleaved calls have made six attempts between them,
\* so the cursor has wrapped round to 1
C23_Witness ==
    /\ Counted(op[1])
    /\ SumIssued(op[1], MaxUrls) = NumUserAgents + 1
    /\ op[1][1].attempt = 2
    /\ op[1][2].attempt = 2
    /\ current_user_agent[1] = 1

\* C24: each job run has a semaphore of its own, sized to its own
\* max_concurrent: job j never has more than max_concurrent_j fetches in
\* flight, a fetch is suspended only behind fetches of its own job, and a step
\* of one job's fetch changes neither the slots, the queue nor the fetches of
\* another job.
C24_OwnSemaphore ==
    [][\A r \in Scrapers :
          /\ run[r].pc = "gathering" =>
                /\ Cardinality(InFlight(r)) <= run[r].max_concurrent
                /\ semaphore[r] + Cardinality(InFlight(r)) = run[r].max_concurrent
          /\ \A i \in OpIds :
                (op[r][i].pc = "created" /\ op'[r][i].pc = "waiting") =>
                    \/ Cardinality(InFlight(r)) = run[r].max_concurrent
                    \/ waiters[r] # <<>>
          /\ (op'[r] # op[r] /\ run'[r] = run[r]) =>
                \A q \in Scrapers \ {r} :
                    /\ semaphore'[q] = semaphore[q]
                    /\ waiters'[q] = waiters[q]
                    /\ op'[q] = op[q]
      ]_vars

\* C24 witness: two jobs of one slot each run at the same time and each has
\* its one fetch in flight
C24_Witness ==
    /\ run[1].pc = "gathering" /\ run[1].max_concurrent = 1
    /\ run[2].pc = "gathering" /\ run[2].max_concurrent = 1
    /\ InFlight(1) # {}
    /\ InFlight(2) # {}
    /\ semaphore[1] = 0
    /\ semaphore[2] = 0

\* C25: every run_scraping_job call appends exactly one entry to
\* completed_jobs, the entry is the value the call returns, and (job_ids
\* being distinct) get_job_status afterwards reports the status the caller
\* received.
C25_OneEntryPerRun ==
    /\ Len(completed_jobs) =
          Cardinality({r \in Scrapers : run[r].pc \in {"closing_ok", "done"}})
    /\ \A r \in Scrapers :
          run[r].pc = "done" =>
              /\ \E k \in 1..Len(completed_jobs) : completed_jobs[k] = run[r].ret
              /\ DistinctJobIds => StatusDict(run[r].job_id).status = run[r].ret.status

\* C26 as stated: scrape_search_results derives exactly min(max_properties, 50)
\* URLs when max_properties >= 0, none when it is 0 or negative, and returns
\* no more records than max_properties.
C26_BoundedSearch ==
    search.called =>
        /\ search.max_properties >= 0 =>
              Len(search.property_urls) = Min(search.max_properties, UrlRangeStop - 1)
        /\ search.max_properties <= 0 => search.property_urls = <<>>
        /\ Len(search.returned) <= search.max_properties

\* C26 amended: scrape_search_results derives exactly min(max_properties, 50)
\* URLs when max_properties >= 0, none when it is 0 or negative, and returns
\* no more records than max(max_properties, 0).
C26_BoundedSearchFromZero ==
    search.called =>
        /\ search.max_properties >= 0 =>
              Len(search.property_urls) = Min(search.max_properties, UrlRangeStop - 1)
        /\ search.max_properties <= 0 => search.property_urls = <<>>
        /\ Len(search.returned) <= Max(search.max_properties, 0)

\* C26 witness: asked for more than 50 records, the call derived 50 URLs and
\* returned a record for every one
C26_Witness ==
    /\ search.called
    /\ search.max_properties > UrlRangeStop - 1
    /\ Len(search.property_urls) = UrlRangeStop - 1
    /\ Len(search.returned) = UrlRangeStop - 1

\* C27: JobScheduler.job_history never holds more than 100 records, however
\* the calls end, and the records kept are the most recent ones.
C27_HistoryCapped ==
    /\ Len(job_history) <= HistoryCap
    /\ \A k \in 1..Len(job_history) :
          job_history[k].run = executions - Len(job_history) + k

\* the calls on record whose timestamp is less than a minute before time t
InWindow(rec, t) == {j \in 1..Len(rec) : rec[j].stamp <= t /\ t - rec[j].stamp < Window}

\* C28: with max_requests_per_minute = m >= 1 and calls at non-decreasing
\* times, no more than m recorded timestamps lie within any 60-second window;
\* a call made with fewer than m requests in the last 60 seconds does not
\* sleep, and a call made with m requests in it sleeps until the oldest of
\* them is more than 60 seconds old.
C28_RateLimiter ==
    [][Len(recorded') > Len(recorded) =>
         LET call == recorded'[Len(recorded')]
             live == InWindow(recorded, call.called)
         IN
         /\ \A k \in 1..Len(recorded') :
               Cardinality(InWindow(recorded', recorded'[k].stamp)) <= max_requests
         /\ Cardinality(live) <= max_requests
         /\ Cardinality(live) < max_requests =>
               (call.stamp = call.called /\ wait_time' = 0)
         /\ Cardinality(live) = max_requests =>
               /\ wait_time' > 0
               /\ call.stamp >= call.called + wait_time'
               /\ \E j \in live :
                     /\ \A i \in live : recorded[j].stamp <= recorded[i].stamp
                     /\ call.stamp - recorded[j].stamp > Window
      ]_vars

\* C28 witness: with a limit of 2 a third call within the minute slept, and
\* a later call, made when the window had emptied, did not
C28_Witness ==
    /\ max_requests = 2
    /\ Len(recorded) = 4
    /\ recorded[3].stamp > recorded[3].called
    /\ recorded[3].called - recorded[1].stamp < Window
    /\ recorded[4].stamp = recorded[4].called

\* C29: for runs with pairwise distinct job_ids, get_job_status(job_id)
\* returns 'running' from the registration of the job's scraper (line 269)
\* until the run ends with its result recorded (lines 290-293, 309-312), and
\* from then on, also after run_scraping_job has returned, a result stored
\* for that job_id and never 'running' or 'not_found'.
C29_StatusFollowsRun ==
    [][(status_reply' # NoReply /\ DistinctJobIds) =>
         \A r \in Scrapers :
             run[r].job_id = status_reply'.job_id =>
                 /\ run[r].pc \in {"gathering", "closing_exc"} =>
                       status_reply'.status = "running"
                 /\ run[r].pc \in {"closing_ok", "done"} =>
                       /\ status_reply'.status \in {"completed", "failed"}
                       /\ \E k \in 1..Len(completed_jobs) : completed_jobs[k] = status_reply'
                 /\ (run[r].pc = "done" /\ run[r].ret.error # "close_session") =>
                       status_reply' = run[r].ret
      ]_vars

\* C29 witness: of two jobs with different ids the first has returned
\* 'completed' and is reported so, while the second is still running
C29_Witness ==
    /\ Len(jobs) = 2
    /\ DistinctJobIds
    /\ run[1].pc = "done"
    /\ run[2].pc = "gathering"
    /\ status_reply = run[1].ret
    /\ status_reply.status = "completed"
    /\ StatusDict(jobs[2].job_id).status = "running"

\* how often scraper s has attempted URL u: as recorded for a scraper used
\* directly, the occurrences in its one URL list for the scraper of a job
Attempted(s, u) == IF run[s].pc = "none" THEN attempted[s][u] ELSE Count(urls[s], u)

\* q is p with nothing or something appended
Grown(p, q) == Len(q) >= Len(p) /\ SubSeq(q, 1, Len(p)) = p

\* C30: on one scraper, over any sequence of scrape_property_urls calls, a
\* URL is in scraped_properties and failed_urls together at most as often as
\* it was attempted, so the two lengths add up to no more than the URLs
\* attempted; both lists only grow; success_rate lies within 0..100; and a
\* completed job's property_count is at most its total_properties_scraped.
C30_Accounting ==
    [][/\ \A s \in Scrapers :
            /\ \A u \in UrlNames :
                  Count(scraped_properties[s], u) + Count(failed_urls[s], u)
                      <= Attempted(s, u)
            /\ run'[s].pc # "done" =>
                  /\ Grown(scraped_properties[s], scraped_properties'[s])
                  /\ Grown(failed_urls[s], failed_urls'[s])
            /\ Stats(s).success_rate[1] >= 0
            /\ Stats(s).success_rate[1] <= 100 * Stats(s).success_rate[2]
       /\ \A k \in 1..Len(completed_jobs) :
            completed_jobs[k].status = "completed" =>
                completed_jobs[k].property_count
                    <= completed_jobs[k].total_properties_scraped
      ]_vars

\* C30 witness: URL 1 was attempted in two calls on scraper 1 and is once in
\* scraped_properties and once in failed_urls, beside a URL 2 in neither
C30_Witness ==
    /\ attempted[1][1] = 2
    /\ attempted[1][2] = 1
    /\ batch[1] = "returned"
    /\ Count(scraped_properties[1], 1) = 1
    /\ Count(failed_urls[1], 1) = 1
    /\ Count(scraped_properties[1], 2) + Count(failed_urls[1], 2) = 0

====
